---- MODULE Spec2Model ----
(***************************************************************************)
(* Model of the journal-entry HTTP handlers of journai_backend             *)
(* (src/src/routes.rs) running as concurrent tasks over one MongoDB        *)
(* collection with a unique index on "date" (src/src/main.rs).             *)
(*                                                                         *)
(* One action per segment of handler code between two await points: the   *)
(* store and the completion service act atomically at the await, and the  *)
(* code up to the next await runs in the same step.                        *)
(***************************************************************************)
EXTENDS Integers, Sequences, FiniteSets, TLC

\* Number of HTTP requests served in one behaviour.
NumReq == 2

\* Number of store operations that fail with a storage error in one behaviour.
MaxFaults == 1

Req == 1..NumReq

(***************************************************************************)
(* Values                                                                  *)
(***************************************************************************)

\* chrono::NaiveDate, as the number of days since 1970-01-01
\* (19783 is 2024-03-01, 19784 is 2024-03-02).
NaiveDate == {19783, 19784}

\* Display / Serialize of NaiveDate: the ISO 8601 string.
FormatIso8601 == (19783 :> "2024-03-01") @@ (19784 :> "2024-03-02")

\* FromStr / Deserialize of NaiveDate: Some(date) or None.
ParseNaiveDate(s) ==
  IF \E d \in NaiveDate : FormatIso8601[d] = s
  THEN <<CHOOSE d \in NaiveDate : FormatIso8601[d] = s>>
  ELSE <<>>

\* BSON values a "date" field or filter can hold.
BsonString(s) == [type |-> "String", str |-> s, secs |-> 0]
BsonDateTime(t) == [type |-> "DateTime", str |-> "", secs |-> t]

\* Paris.from_local_datetime(date.and_hms_opt(0, 0, 0)): midnight local time
\* in Europe/Paris (UTC+1 on the modelled dates), in seconds since the epoch.
ParisMidnight(d) == d * 86400 - 3600

\* The struct JournalEntry.
JournalEntry(d, rate, short_summary) ==
  [date |-> d, rate |-> rate, short_summary |-> short_summary]

\* serde serialisation of a JournalEntry into the stored document:
\* the NaiveDate becomes a BSON string.
ToDocument(entry) ==
  [date |-> BsonString(FormatIso8601[entry.date]),
   rate |-> entry.rate,
   short_summary |-> entry.short_summary]

\* serde deserialisation of a stored document: Some(entry) or None.
FromDocument(document) ==
  IF document.date.type = "String" /\ ParseNaiveDate(document.date.str) # <<>>
  THEN <<JournalEntry(ParseNaiveDate(document.date.str)[1],
                      document.rate, document.short_summary)>>
  ELSE <<>>

(***************************************************************************)
(* Completion texts and serde_json::from_str::<JournalEntry>               *)
(***************************************************************************)

JsonString(s) == [type |-> "string", str |-> s, num |-> 0]
JsonNumber(n) == [type |-> "number", str |-> "", num |-> n]
JsonField(name, value) == [name |-> name, value |-> value]
JsonObject(fields) == [syntax |-> "object", fields |-> fields]
NotJson == [syntax |-> "invalid", fields |-> {}]

HasField(text, name) == \E f \in text.fields : f.name = name
Field(text, name) == (CHOOSE f \in text.fields : f.name = name).value

\* A parser that fills in a missing rate with 0 (as #[serde(default)] would).
from_str_DefaultRate(text) ==
  IF /\ text.syntax = "object"
     /\ HasField(text, "date")
     /\ Field(text, "date").type = "string"
     /\ ParseNaiveDate(Field(text, "date").str) # <<>>
     /\ HasField(text, "rate") => Field(text, "rate").type = "number"
     /\ HasField(text, "short_summary")
     /\ Field(text, "short_summary").type = "string"
  THEN <<JournalEntry(ParseNaiveDate(Field(text, "date").str)[1],
                      IF HasField(text, "rate") THEN Field(text, "rate").num ELSE 0,
                      Field(text, "short_summary").str)>>
  ELSE <<>>

\* Some(entry) when the text is a JSON object with a date string that is a
\* calendar date, a numeric rate and a string short_summary; None otherwise.
from_str(text) ==
  IF /\ text.syntax = "object"
     /\ HasField(text, "date")
     /\ Field(text, "date").type = "string"
     /\ ParseNaiveDate(Field(text, "date").str) # <<>>
     /\ HasField(text, "rate")
     /\ Field(text, "rate").type = "number"
     /\ HasField(text, "short_summary")
     /\ Field(text, "short_summary").type = "string"
  THEN <<JournalEntry(ParseNaiveDate(Field(text, "date").str)[1],
                      Field(text, "rate").num,
                      Field(text, "short_summary").str)>>
  ELSE <<>>

\* What the model generates for one request: a rate (in tenths: 8 is 0.8) and
\* a summary together.
Generated == {<<8, "Productive day">>, <<3, "Tired, revised">>}

EntryText(d, g) ==
  JsonObject({JsonField("date", JsonString(FormatIso8601[d])),
              JsonField("rate", JsonNumber(g[1])),
              JsonField("short_summary", JsonString(g[2]))})

\* Completion texts that carry a whole entry.
GoodTexts == {EntryText(d, g) : d \in NaiveDate, g \in Generated}

\* Completion texts that are not valid structured data for an entry.
BadTexts ==
  { NotJson,
    JsonObject({JsonField("date", JsonString("2024-03-01")),
                JsonField("short_summary", JsonString("Productive day"))}),
    JsonObject({JsonField("date", JsonString("yesterday")),
                JsonField("rate", JsonString("high")),
                JsonField("short_summary", JsonString("Productive day"))}) }

Texts == GoodTexts \cup BadTexts

\* A chat completion response: the transport failed, or a list of choices,
\* each with an optional message content.
Choices ==
  {<<>>} \cup {<<[content |-> <<>>]>>}
         \cup {<<[content |-> <<t>>]>> : t \in Texts}
         \cup {<<[content |-> <<>>], [content |-> <<NotJson>>]>>}

Responses ==
  {[ok |-> FALSE, choices |-> <<>>]} \cup {[ok |-> TRUE, choices |-> c] : c \in Choices}

\* An extraction that takes the first choice that has a content.
FirstContent_AnyChoice(response) ==
  IF \E i \in DOMAIN response.choices : response.choices[i].content # <<>>
  THEN response.choices[CHOOSE i \in DOMAIN response.choices :
                           /\ response.choices[i].content # <<>>
                           /\ \A j \in 1..(i - 1) : response.choices[j].content = <<>>].content
  ELSE <<>>

\* response.choices.get(0).map(|o| o.message.clone().content).flatten()
FirstContent(response) ==
  IF Len(response.choices) = 0 THEN <<>> ELSE response.choices[1].content

(***************************************************************************)
(* The collection                                                          *)
(***************************************************************************)

Matching(coll, filterDate) == {i \in DOMAIN coll : coll[i].date = filterDate}

First(S) == CHOOSE i \in S : \A j \in S : i <= j

RemoveAt(coll, i) ==
  [j \in 1..(Len(coll) - 1) |-> IF j < i THEN coll[j] ELSE coll[j + 1]]

\* A collection without the unique index: no insert conflicts.
DuplicateKey_NoIndex(coll, document) == FALSE

\* The unique index on "date": an insert conflicts with a stored document
\* that has the same value in "date".
DuplicateKey(coll, document) == Matching(coll, document.date) # {}

\* An insert that overwrites the first stored document (a replace with an
\* empty filter) instead of adding one.
insert_one_ReplaceFirst(coll, document) ==
  IF coll = <<>> THEN <<document>> ELSE [coll EXCEPT ![1] = document]

\* An insert that stores a draft, without the summary.
insert_one_Draft(coll, document) ==
  Append(coll, [document EXCEPT !.short_summary = ""])

\* insert_one on a document that does not conflict.
insert_one(coll, document) == Append(coll, document)

\* An update that adds to the stored rate ($inc) instead of setting it.
update_one_Inc(coll, filterDate, short_summary, rate) ==
  IF Matching(coll, filterDate) = {} THEN coll
  ELSE [coll EXCEPT ![First(Matching(coll, filterDate))] =
          [@ EXCEPT !.short_summary = short_summary, !.rate = @ + rate]]

\* An update with upsert: a document is added when none matches.
update_one_Upsert(coll, filterDate, short_summary, rate) ==
  IF Matching(coll, filterDate) = {}
  THEN Append(coll, [date |-> filterDate, rate |-> rate, short_summary |-> short_summary])
  ELSE [coll EXCEPT ![First(Matching(coll, filterDate))] =
          [@ EXCEPT !.short_summary = short_summary, !.rate = rate]]

\* update_one with filter { "date": filterDate } and
\* $set { short_summary, rate }: changes the first matching document.
update_one(coll, filterDate, short_summary, rate) ==
  IF Matching(coll, filterDate) = {} THEN coll
  ELSE [coll EXCEPT ![First(Matching(coll, filterDate))] =
          [@ EXCEPT !.short_summary = short_summary, !.rate = rate]]

\* delete_one with filter { "date": filterDate }: removes the first
\* matching document.
delete_one(coll, filterDate) ==
  IF Matching(coll, filterDate) = {} THEN coll
  ELSE RemoveAt(coll, First(Matching(coll, filterDate)))

\* find(None, None) followed by try_collect: every document, deserialised.
find(coll) == [i \in DOMAIN coll |-> FromDocument(coll[i])[1]]
Deserialisable(coll) == \A i \in DOMAIN coll : FromDocument(coll[i]) # <<>>

\* The filter of the merge update: the parsed date at midnight in Paris,
\* converted by doc! into a BSON datetime.
UpdateFilter(entry) == BsonDateTime(ParisMidnight(entry.date))

\* A delete filter built like the update filter, as a BSON datetime.
DeleteFilter_DateTime(payload) == BsonDateTime(ParisMidnight(payload.date))

\* The filter of the delete: bson::to_document of DeleteJournalEntry, which
\* serialises the NaiveDate as a BSON string.
DeleteFilter(payload) == BsonString(FormatIso8601[payload.date])

(***************************************************************************)
(* State                                                                   *)
(***************************************************************************)

VARIABLES
  storage,     \* the "entries" collection: a sequence of documents
  pc,          \* per request: the await point its task is at
  request,     \* per request: method and payload
  messages,    \* per create request: the prompt messages
  response,    \* per create request: Some(the completion response)
  json,        \* per create request: Some(the parsed entry)
  insertRes,   \* per create request: Some(the result of insert_one)
  updateRes,   \* per create request: Some(the result of update_one)
  deleteRes,   \* per delete request: Some(the result of delete_one)
  result,      \* per request: Some(the HTTP response)
  doneBefore,  \* per request: the requests answered before it arrived
  faults,      \* the number of store operations that have failed
  calls        \* per create request: the outbound calls it has made, by kind

vars == <<storage, pc, request, messages, response, json, insertRes,
          updateRes, deleteRes, result, doneBefore, faults, calls>>

NoCalls == [completion |-> 0, insert |-> 0, update |-> 0]

\* The store answers an operation, or fails it with a storage error.
StoreAnswers(fault) ==
  /\ fault => faults < MaxFaults
  /\ faults' = IF fault THEN faults + 1 ELSE faults

Names == {"Ana"}
Summaries == {"Felt productive"}
RequestDates == {19783}

CreateJournalEntry(name, summary, d) ==
  [method |-> "POST", name |-> name, summary |-> summary, date |-> d]
DeleteJournalEntry(d) ==
  [method |-> "DELETE", name |-> "", summary |-> "", date |-> d]
ListJournalEntries ==
  [method |-> "GET", name |-> "", summary |-> "", date |-> 0]

Ok(body) == [status |-> 200, error |-> "", body |-> body]
Err(error) == [status |-> 500, error |-> error, body |-> <<>>]

\* What the collection can hold when the server starts: documents written by
\* earlier runs of the server, at most one for each date (the unique index is
\* created at start-up).
InitialCollections ==
  {<<>>}
  \cup {<<ToDocument(JournalEntry(d, g[1], g[2]))>> : d \in NaiveDate, g \in Generated}
  \cup {<<ToDocument(JournalEntry(19783, g1[1], g1[2])),
          ToDocument(JournalEntry(19784, g2[1], g2[2]))>> : g1 \in Generated, g2 \in Generated}

\* The state of the handlers before the first request.
NoRequests ==
  /\ pc = [r \in Req |-> "idle"]
  /\ request = [r \in Req |-> <<>>]
  /\ messages = [r \in Req |-> <<>>]
  /\ response = [r \in Req |-> <<>>]
  /\ json = [r \in Req |-> <<>>]
  /\ insertRes = [r \in Req |-> <<>>]
  /\ updateRes = [r \in Req |-> <<>>]
  /\ deleteRes = [r \in Req |-> <<>>]
  /\ result = [r \in Req |-> <<>>]
  /\ doneBefore = [r \in Req |-> {}]
  /\ faults = 0
  /\ calls = [r \in Req |-> NoCalls]

\* A stored document whose date is a BSON datetime, the form the filter of
\* the merge update looks for.
DateTimeDocument(d, g) ==
  [date |-> BsonDateTime(ParisMidnight(d)), rate |-> g[1], short_summary |-> g[2]]

\* Collections the operations can be applied to: those of InitialCollections
\* and date-unique collections that hold documents with a datetime date.
AnyCollections ==
  InitialCollections
  \cup {<<DateTimeDocument(19783, g)>> : g \in Generated}
  \cup UNION {{<<DateTimeDocument(19783, g1),
                   ToDocument(JournalEntry(19784, g2[1], g2[2]))>> :
                   g2 \in Generated \ {g1}} : g1 \in Generated}
  \cup UNION {{<<ToDocument(JournalEntry(19783, g1[1], g1[2])),
                   DateTimeDocument(19783, g2)>> :
                   g2 \in Generated \ {g1}} : g1 \in Generated}

Init ==
  /\ storage \in InitialCollections
  /\ pc = [r \in Req |-> "idle"]
  /\ request = [r \in Req |-> <<>>]
  /\ messages = [r \in Req |-> <<>>]
  /\ response = [r \in Req |-> <<>>]
  /\ json = [r \in Req |-> <<>>]
  /\ insertRes = [r \in Req |-> <<>>]
  /\ updateRes = [r \in Req |-> <<>>]
  /\ deleteRes = [r \in Req |-> <<>>]
  /\ result = [r \in Req |-> <<>>]
  /\ doneBefore = [r \in Req |-> {}]
  /\ faults = 0
  /\ calls = [r \in Req |-> NoCalls]

\* Requests are numbered in the order they arrive.
Arrives(r) ==
  /\ pc[r] = "idle"
  /\ \A q \in Req : q < r => pc[q] # "idle"
  /\ doneBefore' = [doneBefore EXCEPT ![r] = {q \in Req : pc[q] = "done"}]

(***************************************************************************)
(* POST / : create_journal_entry                                           *)
(***************************************************************************)

\* The system message and the user message "{name} ({date}): {summary}".
BuildMessages(payload) ==
  <<[role |-> "system", name |-> "", date |-> "", summary |-> ""],
    [role |-> "user", name |-> payload.name,
     date |-> FormatIso8601[payload.date], summary |-> payload.summary]>>

\* The request arrives, the prompt is built and the completion is requested.
CreateArrive(r) ==
  /\ Arrives(r)
  /\ \E name \in Names, summary \in Summaries, d \in RequestDates :
       /\ request' = [request EXCEPT ![r] = <<CreateJournalEntry(name, summary, d)>>]
       /\ messages' = [messages EXCEPT ![r] =
                         BuildMessages(CreateJournalEntry(name, summary, d))]
  /\ pc' = [pc EXCEPT ![r] = "completing"]
  /\ calls' = [calls EXCEPT ![r].completion = @ + 1]
  /\ UNCHANGED <<storage, response, json, insertRes, updateRes, deleteRes, result, faults>>

\* What the handler does with a completion response, up to the insert:
\* the error it returns, or "" when it goes on to insert.
CompletionError(resp) ==
  IF ~resp.ok THEN "OpenAI"
  ELSE IF FirstContent(resp) = <<>> THEN "NoOutput"
  ELSE IF from_str(FirstContent(resp)[1]) = <<>> THEN "Serialization"
  ELSE ""

\* The completion call returns; the text is extracted and parsed.
CompletionReturn(r) ==
  /\ pc[r] = "completing"
  /\ \E resp \in Responses :
       /\ response' = [response EXCEPT ![r] = <<resp>>]
       /\ IF CompletionError(resp) # ""
          THEN /\ result' = [result EXCEPT ![r] = <<Err(CompletionError(resp))>>]
               /\ pc' = [pc EXCEPT ![r] = "done"]
               /\ UNCHANGED <<json, calls>>
          ELSE /\ json' = [json EXCEPT ![r] = from_str(FirstContent(resp)[1])]
               /\ pc' = [pc EXCEPT ![r] = "inserting"]
               /\ calls' = [calls EXCEPT ![r].insert = @ + 1]
               /\ UNCHANGED result
  /\ UNCHANGED <<storage, request, messages, insertRes, updateRes, deleteRes,
                 doneBefore, faults>>

\* A handler that stores the entry under the date of the request.
PersistedEntry_RequestDate(payload, entry) == [entry EXCEPT !.date = payload.date]

\* The entry the handler hands to the store: the parsed value json, whatever
\* the payload of the request says.
PersistedEntry(payload, entry) == entry

\* A success response that re-reads the entry of that date from the store.
CreateResponse_ReRead(entry) ==
  LET stored == {i \in DOMAIN storage :
                   /\ FromDocument(storage[i]) # <<>>
                   /\ FromDocument(storage[i])[1].date = entry.date}
  IN IF stored = {} THEN Ok(<<entry>>)
     ELSE Ok(FromDocument(storage[CHOOSE i \in stored : TRUE]))

\* The success response of the create handler: the parsed entry.
CreateResponse(entry) == Ok(<<entry>>)

\* A handler that runs the update after every insert, whatever its result.
AfterInsert_Always(res) == "updating"

\* The state in which the handler leaves the insert: any Err(_) of insert_one
\* leads to the update.
AfterInsert(res) == IF res = "Ok" THEN "done" ELSE "updating"

\* insert_one returns: the document was added, or the unique index refused
\* it, or the store failed.
InsertReturn(r) ==
  /\ pc[r] = "inserting"
  /\ \E fault \in BOOLEAN :
       /\ StoreAnswers(fault)
       /\ LET document == ToDocument(PersistedEntry(request[r][1], json[r][1]))
              res == IF fault THEN "Other"
                     ELSE IF DuplicateKey(storage, document) THEN "DuplicateKey"
                     ELSE "Ok"
          IN /\ insertRes' = [insertRes EXCEPT ![r] = <<res>>]
             /\ storage' = IF res = "Ok" THEN insert_one(storage, document) ELSE storage
             /\ pc' = [pc EXCEPT ![r] = AfterInsert(res)]
             /\ result' = IF AfterInsert(res) = "done"
                          THEN [result EXCEPT ![r] = <<CreateResponse(json[r][1])>>]
                          ELSE result
             /\ calls' = IF AfterInsert(res) = "updating"
                         THEN [calls EXCEPT ![r].update = @ + 1]
                         ELSE calls
  /\ UNCHANGED <<request, messages, response, json, updateRes, deleteRes, doneBefore>>

\* update_one returns: the number of matched documents is not looked at.
UpdateReturn(r) ==
  /\ pc[r] = "updating"
  /\ \E fault \in BOOLEAN :
       /\ StoreAnswers(fault)
       /\ LET entry == json[r][1]
              filter == UpdateFilter(PersistedEntry(request[r][1], entry))
          IN IF fault
             THEN /\ updateRes' = [updateRes EXCEPT ![r] = <<[ok |-> FALSE, matched_count |-> 0]>>]
                  /\ result' = [result EXCEPT ![r] = <<Err("Mongo")>>]
                  /\ UNCHANGED storage
             ELSE /\ updateRes' = [updateRes EXCEPT ![r] =
                       <<[ok |-> TRUE,
                          matched_count |-> IF Matching(storage, filter) = {} THEN 0 ELSE 1]>>]
                  /\ storage' = update_one(storage, filter, entry.short_summary, entry.rate)
                  /\ result' = [result EXCEPT ![r] = <<CreateResponse(entry)>>]
  /\ pc' = [pc EXCEPT ![r] = "done"]
  /\ UNCHANGED <<request, messages, response, json, insertRes, deleteRes, doneBefore, calls>>

(***************************************************************************)
(* GET / : list_journal_entries                                            *)
(***************************************************************************)

ListArrive(r) ==
  /\ Arrives(r)
  /\ request' = [request EXCEPT ![r] = <<ListJournalEntries>>]
  /\ pc' = [pc EXCEPT ![r] = "listing"]
  /\ UNCHANGED <<storage, messages, response, json, insertRes, updateRes, deleteRes, result,
                 faults, calls>>

ListReturn(r) ==
  /\ pc[r] = "listing"
  /\ \E fault \in BOOLEAN :
       /\ StoreAnswers(fault)
       /\ result' = [result EXCEPT ![r] =
                    IF fault \/ ~Deserialisable(storage)
                    THEN <<Err("Mongo")>>
                    ELSE <<Ok(find(storage))>>]
  /\ pc' = [pc EXCEPT ![r] = "done"]
  /\ UNCHANGED <<storage, request, messages, response, json, insertRes,
                 updateRes, deleteRes, doneBefore, calls>>

(***************************************************************************)
(* DELETE / : delete_journal_entry                                         *)
(***************************************************************************)

DeleteArrive(r) ==
  /\ Arrives(r)
  /\ \E d \in NaiveDate :
       request' = [request EXCEPT ![r] = <<DeleteJournalEntry(d)>>]
  /\ pc' = [pc EXCEPT ![r] = "deleting"]
  /\ UNCHANGED <<storage, messages, response, json, insertRes, updateRes, deleteRes, result,
                 faults, calls>>

\* A delete handler that reports a delete that removed nothing as an error.
DeleteResult_NotFound(res) ==
  IF res.ok /\ res.deleted_count > 0 THEN Ok(<<>>) ELSE Err("Mongo")

\* The response of the delete handler to the result of delete_one.
DeleteResult(res) == IF res.ok THEN Ok(<<>>) ELSE Err("Mongo")

DeleteReturn(r) ==
  /\ pc[r] = "deleting"
  /\ \E fault \in BOOLEAN :
       /\ StoreAnswers(fault)
       /\ LET filter == DeleteFilter(request[r][1])
              res == IF fault THEN [ok |-> FALSE, deleted_count |-> 0]
                     ELSE [ok |-> TRUE,
                           deleted_count |-> IF Matching(storage, filter) = {} THEN 0 ELSE 1]
          IN /\ deleteRes' = [deleteRes EXCEPT ![r] = <<res>>]
             /\ storage' = IF fault THEN storage ELSE delete_one(storage, filter)
             /\ result' = [result EXCEPT ![r] = <<DeleteResult(res)>>]
  /\ pc' = [pc EXCEPT ![r] = "done"]
  /\ UNCHANGED <<request, messages, response, json, insertRes, updateRes, doneBefore,
                 calls>>

Next ==
  \E r \in Req :
    \/ CreateArrive(r)
    \/ CompletionReturn(r)
    \/ InsertReturn(r)
    \/ UpdateReturn(r)
    \/ ListArrive(r)
    \/ ListReturn(r)
    \/ DeleteArrive(r)
    \/ DeleteReturn(r)

Spec == Init /\ [][Next]_vars

\* The handlers over any collection, for the properties of the store
\* operations themselves.
InitAnyStore == storage \in AnyCollections /\ NoRequests

SpecAnyStore == InitAnyStore /\ [][Next]_vars

TypeOK ==
  /\ \A r \in Req : pc[r] \in {"idle", "completing", "inserting", "updating",
                               "listing", "deleting", "done"}
  /\ \A r \in Req : Len(result[r]) <= 1

(***************************************************************************)
(* Properties                                                              *)
(***************************************************************************)

IsCreate(r) == request[r] # <<>> /\ request[r][1].method = "POST"
IsDelete(r) == request[r] # <<>> /\ request[r][1].method = "DELETE"
IsList(r) == request[r] # <<>> /\ request[r][1].method = "GET"
Done(r) == pc[r] = "done"
Succeeded(r) == Done(r) /\ result[r][1].status = 200

\* The positions of the stored records a list request would show for date d.
RecordsOf(coll, d) ==
  {i \in DOMAIN coll : FromDocument(coll[i]) # <<>> /\ FromDocument(coll[i])[1].date = d}

\* Request r has acted on the record of date d in the store.
ActedOn(r, d) ==
  \/ IsCreate(r) /\ json[r] # <<>> /\ json[r][1].date = d /\ insertRes[r] # <<>>
  \/ IsDelete(r) /\ request[r][1].date = d /\ deleteRes[r] # <<>>

\* C1: in every reachable state the store holds at most one record for each
\* date.
C1_Uniqueness ==
  \A i \in DOMAIN storage : \A j \in DOMAIN storage :
    i # j => storage[i].date # storage[j].date

\* A create was refused by the unique index, another request was answered,
\* and the store holds the record of that date.
C1_Witness ==
  \E r \in Req : \E q \in Req :
    /\ IsCreate(r) /\ insertRes[r] = <<"DuplicateKey">>
    /\ q # r /\ Done(q)
    /\ RecordsOf(storage, json[r][1].date) # {}

\* C2: when two create requests with the same parsed date run one after the
\* other and both succeed (no storage fault, no other request acting on that
\* date), the store holds exactly one record for the date, with the rate and
\* short_summary of the second request.
C2_MergeConvergence ==
  \A r1 \in Req : \A r2 \in Req :
    ( /\ IsCreate(r1) /\ IsCreate(r2)
      /\ r1 \in doneBefore[r2]
      /\ Succeeded(r1) /\ Succeeded(r2)
      /\ json[r1][1].date = json[r2][1].date
      /\ insertRes[r1] # <<"Other">> /\ insertRes[r2] # <<"Other">>
      /\ \A q \in Req \ {r1, r2} : ~ActedOn(q, json[r2][1].date) )
    => /\ Cardinality(RecordsOf(storage, json[r2][1].date)) = 1
       /\ \A i \in RecordsOf(storage, json[r2][1].date) :
            FromDocument(storage[i])[1] = json[r2][1]

\* C3: the update is attempted only after the insert failed with a duplicate
\* key; an insert that fails for another storage reason ends the request with
\* the storage error and no update.
C3_MergeOnlyOnDuplicateKey ==
  \A r \in Req :
    /\ (pc[r] = "updating" \/ updateRes[r] # <<>>) => insertRes[r] = <<"DuplicateKey">>
    /\ insertRes[r] = <<"Other">> =>
         /\ Done(r) /\ result[r] = <<Err("Mongo")>>
         /\ updateRes[r] = <<>>

\* C4: a create request that returns success either inserted its entry or
\* updated a record: never a failed insert followed by an update that
\* matched no record.
C4_NoPartialSuccess ==
  \A r \in Req :
    (IsCreate(r) /\ Succeeded(r)) =>
      \/ insertRes[r] = <<"Ok">>
      \/ /\ updateRes[r] # <<>>
         /\ updateRes[r][1].ok
         /\ updateRes[r][1].matched_count >= 1

\* C5: when the completion text is not valid structured data for an entry,
\* the create request fails with the parse error and performs neither the
\* insert nor the update.
C5_FailClosedOnBadOutput ==
  \A r \in Req :
    ( /\ response[r] # <<>>
      /\ response[r][1].ok
      /\ Len(response[r][1].choices) >= 1
      /\ response[r][1].choices[1].content # <<>>
      /\ response[r][1].choices[1].content[1] \in BadTexts )
    => /\ Done(r)
       /\ result[r] = <<Err("Serialization")>>
       /\ json[r] = <<>> /\ insertRes[r] = <<>> /\ updateRes[r] = <<>>

\* A request was answered with the parse error for a JSON object that lacks
\* a field.
C5_Witness ==
  \E r \in Req :
    /\ Done(r) /\ result[r] = <<Err("Serialization")>>
    /\ response[r][1].choices[1].content[1] \in BadTexts \ {NotJson}

\* C6: when the completion service answers with zero choices, or with a first
\* choice without content, the create request fails with NoOutput and
\* performs no store operation.
C6_FailClosedOnEmptyCompletion ==
  \A r \in Req :
    ( /\ response[r] # <<>>
      /\ response[r][1].ok
      /\ \/ Len(response[r][1].choices) = 0
         \/ response[r][1].choices[1].content = <<>> )
    => /\ Done(r)
       /\ result[r] = <<Err("NoOutput")>>
       /\ json[r] = <<>> /\ insertRes[r] = <<>> /\ updateRes[r] = <<>>

\* One request got zero choices and another a first choice without content,
\* and both were answered NoOutput.
C6_Witness ==
  \E r \in Req : \E q \in Req :
    /\ result[r] = <<Err("NoOutput")>> /\ Len(response[r][1].choices) = 0
    /\ result[q] = <<Err("NoOutput")>> /\ Len(response[q][1].choices) = 2

\* C7: two concurrent create requests for the same date, the first of which
\* inserts (no storage fault, no other request acting on that date): the
\* other one sees the conflict and merges, both return success, and the
\* store holds exactly one record for the date, with the rate and
\* short_summary of the request that merged.
C7_BenignRace ==
  \A r1 \in Req : \A r2 \in Req :
    ( /\ r1 # r2 /\ IsCreate(r1) /\ IsCreate(r2)
      /\ r1 \notin doneBefore[r2] /\ r2 \notin doneBefore[r1]
      /\ Done(r1) /\ Done(r2)
      /\ json[r1] # <<>> /\ json[r2] # <<>>
      /\ json[r1][1].date = json[r2][1].date
      /\ insertRes[r1] = <<"Ok">>
      /\ faults = 0
      /\ \A q \in Req \ {r1, r2} : ~ActedOn(q, json[r1][1].date) )
    => /\ insertRes[r2] = <<"DuplicateKey">>
       /\ updateRes[r2] # <<>> /\ updateRes[r2][1].ok
       /\ Succeeded(r1) /\ Succeeded(r2)
       /\ Cardinality(RecordsOf(storage, json[r1][1].date)) = 1
       /\ \A i \in RecordsOf(storage, json[r1][1].date) :
            FromDocument(storage[i])[1] = json[r2][1]

\* C8: a create request whose insert succeeded, or whose insert conflicted
\* and whose update succeeded, is answered 200 with exactly the entry parsed
\* from the completion text.
C8_ReturnsParsedEntry ==
  \A r \in Req :
    ( /\ IsCreate(r) /\ Done(r)
      /\ \/ insertRes[r] = <<"Ok">>
         \/ /\ insertRes[r] = <<"DuplicateKey">>
            /\ updateRes[r] # <<>> /\ updateRes[r][1].ok )
    => /\ result[r][1].status = 200
       /\ result[r][1].error = ""
       /\ result[r][1].body = from_str(response[r][1].choices[1].content[1])

\* A create was answered after a conflict with the entry it parsed, while the
\* store holds other values for that date.
C8_Witness ==
  \E r \in Req :
    /\ IsCreate(r) /\ Succeeded(r)
    /\ insertRes[r] = <<"DuplicateKey">>
    /\ \E i \in RecordsOf(storage, json[r][1].date) :
         FromDocument(storage[i]) # result[r][1].body

\* C9: a delete for a date that has no record, which the store answers,
\* returns success and leaves the store unchanged, every time it is made.
C9_DeleteIdempotent ==
  [][\A r \in Req :
       ( /\ pc[r] = "deleting" /\ pc'[r] = "done"
         /\ deleteRes'[r][1].ok
         /\ RecordsOf(storage, request[r][1].date) = {} )
       => /\ storage' = storage
          /\ result'[r] = <<Ok(<<>>)>>]_vars

\* The same delete was made twice, one after the other, on a date without a
\* record, and both were answered 200.
C9_Witness ==
  \E r \in Req : \E q \in Req :
    /\ IsDelete(r) /\ IsDelete(q) /\ r \in doneBefore[q]
    /\ request[r] = request[q]
    /\ Succeeded(r) /\ Succeeded(q)
    /\ deleteRes[r][1].deleted_count = 0 /\ deleteRes[q][1].deleted_count = 0
    /\ storage # <<>>

\* No create request for date d ran concurrently with delete request q or
\* after it: every create whose parsed entry has date d was answered before
\* q arrived.
NoCreateSince(q, d) ==
  \A c \in Req : (json[c] # <<>> /\ json[c][1].date = d) => c \in doneBefore[q]

\* C10: after a delete for date d returned success, with no create for d
\* concurrently or afterwards, the store holds no record for d and a list
\* request that follows does not return an entry for d.
C10_DeletedIsAbsent ==
  \A q \in Req :
    ( /\ IsDelete(q) /\ Succeeded(q)
      /\ NoCreateSince(q, request[q][1].date) )
    => /\ RecordsOf(storage, request[q][1].date) = {}
       /\ \A l \in Req :
            (IsList(l) /\ Succeeded(l) /\ q \in doneBefore[l]) =>
              \A i \in DOMAIN result[l][1].body :
                result[l][1].body[i].date # request[q][1].date

\* A delete removed the record of its date, and a list request that followed
\* returned the other record only.
C10_Witness ==
  \E q \in Req : \E l \in Req :
    /\ IsDelete(q) /\ Succeeded(q) /\ deleteRes[q][1].deleted_count = 1
    /\ NoCreateSince(q, request[q][1].date)
    /\ IsList(l) /\ Succeeded(l) /\ q \in doneBefore[l]
    /\ Len(result[l][1].body) = 1

\* C11: within one create request the completion call follows the building of
\* the prompt, parsing follows a completion text, the insert follows a
\* successful parse and the update follows a failed insert; no store operation
\* precedes a successful parse.
C11_StepsInOrder ==
  \A r \in Req :
    /\ calls[r].completion >= 1 =>
         /\ IsCreate(r)
         /\ messages[r] = BuildMessages(request[r][1])
    /\ response[r] # <<>> => calls[r].completion >= 1
    /\ json[r] # <<>> =>
         /\ response[r] # <<>> /\ response[r][1].ok
         /\ Len(response[r][1].choices) >= 1
         /\ response[r][1].choices[1].content # <<>>
         /\ response[r][1].choices[1].content[1] \in GoodTexts
    /\ (calls[r].insert >= 1 \/ insertRes[r] # <<>>) => json[r] # <<>>
    /\ insertRes[r] # <<>> => calls[r].insert >= 1
    /\ (calls[r].update >= 1 \/ updateRes[r] # <<>>) =>
         /\ json[r] # <<>>
         /\ insertRes[r] # <<>> /\ insertRes[r] # <<"Ok">>
    /\ updateRes[r] # <<>> => calls[r].update >= 1

\* A create request went through every step: completion, parse, failed
\* insert, update.
C11_Witness ==
  \E r \in Req :
    /\ Done(r) /\ updateRes[r] # <<>>
    /\ calls[r] = [completion |-> 1, insert |-> 1, update |-> 1]

\* The create request failed at a step other than the handled date conflict.
FailedStep(r) ==
  \/ /\ response[r] # <<>>
     /\ \/ ~response[r][1].ok
        \/ Len(response[r][1].choices) = 0
        \/ response[r][1].choices[1].content = <<>>
        \/ response[r][1].choices[1].content[1] \in BadTexts
  \/ insertRes[r] = <<"Other">>
  \/ updateRes[r] # <<>> /\ ~updateRes[r][1].ok

\* C12: a create request makes at most one completion call, one insert
\* attempt and one update attempt, and after a failure (other than the
\* handled date conflict) it makes no further outbound call.
C12_NoRetries ==
  \A r \in Req :
    /\ calls[r].completion <= 1 /\ calls[r].insert <= 1 /\ calls[r].update <= 1
    /\ ( /\ response[r] # <<>>
         /\ \/ ~response[r][1].ok
            \/ Len(response[r][1].choices) = 0
            \/ response[r][1].choices[1].content = <<>>
            \/ response[r][1].choices[1].content[1] \in BadTexts )
       => calls[r].insert = 0 /\ calls[r].update = 0
    /\ insertRes[r] = <<"Other">> => calls[r].update = 0

\* C13: every failure of a create request other than the handled date
\* conflict is returned to the caller as status 500.
C13_FailuresAre500 ==
  \A r \in Req :
    (IsCreate(r) /\ Done(r) /\ FailedStep(r)) => result[r][1].status = 500

\* Step of create request r that adds the entry it parsed.
Added(r) ==
  /\ IsCreate(r) /\ pc[r] = "inserting" /\ pc'[r] # "inserting"
  /\ json[r] # <<>>
  /\ response[r] # <<>>
  /\ json[r] = from_str(response[r][1].choices[1].content[1])
  /\ storage' = Append(storage, ToDocument(json[r][1]))

\* Step of create request r, whose insert hit a date conflict, that changes
\* the rate and short_summary of one stored record.
Merged(r) ==
  /\ IsCreate(r) /\ pc[r] = "updating" /\ pc'[r] = "done"
  /\ insertRes[r] = <<"DuplicateKey">>
  /\ Len(storage') = Len(storage)
  /\ \E i \in DOMAIN storage :
       /\ storage' = [storage EXCEPT ![i] =
                        [@ EXCEPT !.rate = json[r][1].rate,
                                  !.short_summary = json[r][1].short_summary]]

\* Step of delete request r that removes one stored record.
Removed(r) ==
  /\ IsDelete(r) /\ pc[r] = "deleting" /\ pc'[r] = "done"
  /\ \E i \in DOMAIN storage :
       storage' = SubSeq(storage, 1, i - 1) \o SubSeq(storage, i + 1, Len(storage))

\* C14: every change of the stored records is a record added by a create
\* request that has parsed a completion, the rate and short_summary of a
\* record changed by a create request whose insert hit a date conflict, or a
\* record removed by a delete request; a create request removes no record
\* and a list request changes nothing.
C14_Lifecycle ==
  [][/\ storage' # storage => \E r \in Req : Added(r) \/ Merged(r) \/ Removed(r)
     /\ \A r \in Req :
          /\ (pc[r] \in {"completing", "inserting", "updating"} /\ pc'[r] # pc[r]) =>
               /\ Len(storage') >= Len(storage)
               /\ \A i \in DOMAIN storage : storage'[i].date = storage[i].date
          /\ (pc[r] = "listing" /\ pc'[r] # pc[r]) => storage' = storage]_vars

\* A create request has added a record and a delete request has removed one.
C14_Witness ==
  \E c \in Req : \E q \in Req :
    /\ IsCreate(c) /\ Done(c) /\ insertRes[c] = <<"Ok">>
    /\ IsDelete(q) /\ Done(q) /\ deleteRes[q][1].deleted_count = 1

\* C15: every stored record is fully formed, and its rate and short_summary
\* are a pair generated together for one request.
C15_NoTornRecords ==
  \A i \in DOMAIN storage :
    /\ FromDocument(storage[i]) # <<>>
    /\ <<storage[i].rate, storage[i].short_summary>> \in Generated

\* Two concurrent create requests with different generated values for the
\* same date were both answered, and the store holds the record of that date.
C15_Witness ==
  \E r1 \in Req : \E r2 \in Req :
    /\ r1 # r2 /\ IsCreate(r1) /\ IsCreate(r2)
    /\ r1 \notin doneBefore[r2] /\ r2 \notin doneBefore[r1]
    /\ Succeeded(r1) /\ Succeeded(r2)
    /\ json[r1][1].date = json[r2][1].date
    /\ json[r1][1].rate # json[r2][1].rate
    /\ RecordsOf(storage, json[r1][1].date) # {}

\* The entries a completion can carry.
Entries == {JournalEntry(d, g[1], g[2]) : d \in NaiveDate, g \in Generated}

\* C16: applying the merge update twice with the same date, rate and
\* short_summary leaves the store as applying it once does.
C16_UpdateIdempotent ==
  \A e \in Entries :
    LET once == update_one(storage, UpdateFilter(e), e.short_summary, e.rate)
    IN update_one(once, UpdateFilter(e), e.short_summary, e.rate) = once

\* A merge update has matched and changed a record, and another merge update
\* would change the store again.
C16_Witness ==
  \E r \in Req :
    /\ Done(r) /\ updateRes[r] = <<[ok |-> TRUE, matched_count |-> 1]>>
    /\ \E i \in DOMAIN storage :
         /\ storage[i].date = UpdateFilter(json[r][1])
         /\ storage[i].rate = json[r][1].rate
    /\ \E e \in Entries :
         update_one(storage, UpdateFilter(e), e.short_summary, e.rate) # storage

\* The calendar date of a stored document: Some(date) or None.
DateOf(document) ==
  IF document.date.type = "String" THEN ParseNaiveDate(document.date.str)
  ELSE <<(document.date.secs + 3600) \div 86400>>

\* The stored documents of the dates other than d, in order.
Others(coll, d) == SelectSeq(coll, LAMBDA document : DateOf(document) # <<d>>)

\* C17: the insert and the merge of a create request whose parsed entry has
\* date d, and a delete for d, leave the records of the other dates
\* unchanged; the merge changes neither the date of a record nor the number
\* of records.
C17_Frame ==
  [][\A r \in Req :
       /\ (pc[r] \in {"inserting", "updating"} /\ pc'[r] # pc[r]) =>
            Others(storage', json[r][1].date) = Others(storage, json[r][1].date)
       /\ (pc[r] = "updating" /\ pc'[r] # pc[r]) =>
            /\ Len(storage') = Len(storage)
            /\ \A i \in DOMAIN storage : storage'[i].date = storage[i].date
       /\ (pc[r] = "deleting" /\ pc'[r] # pc[r]) =>
            Others(storage', request[r][1].date) = Others(storage, request[r][1].date)]_vars

\* A merge has changed the record of its date while the store holds the
\* record of another date, after a delete for the date of the merge.
C17_Witness ==
  \E r \in Req : \E q \in Req :
    /\ Done(r) /\ updateRes[r] = <<[ok |-> TRUE, matched_count |-> 1]>>
    /\ Others(storage, json[r][1].date) # <<>>
    /\ \E i \in DOMAIN storage :
         /\ storage[i].date = UpdateFilter(json[r][1])
         /\ storage[i].rate = json[r][1].rate
    /\ IsDelete(q) /\ Succeeded(q) /\ request[q][1].date = json[r][1].date

\* The date in the completion text of create request r.
ModelDate(r) ==
  ParseNaiveDate(Field(response[r][1].choices[1].content[1], "date").str)[1]

\* The stored documents of date d, in order.
Those(coll, d) == SelectSeq(coll, LAMBDA document : DateOf(document) = <<d>>)

\* C18: a create request inserts or merges under the date of the parsed model
\* output; the date of the request goes into the prompt only, and when the
\* two differ the record of the request's date is left unchanged.
C18_ModelDateIsKey ==
  [][\A r \in Req :
       /\ calls[r].completion >= 1 =>
            messages[r][2].date = FormatIso8601[request[r][1].date]
       /\ (pc[r] = "inserting" /\ insertRes'[r] = <<"Ok">>) =>
            /\ Len(storage') = Len(storage) + 1
            /\ storage'[Len(storage')].date = BsonString(FormatIso8601[ModelDate(r)])
            /\ SubSeq(storage', 1, Len(storage)) = storage
       /\ (pc[r] = "updating" /\ pc'[r] = "done") =>
            \A i \in DOMAIN storage :
              storage'[i] # storage[i] => DateOf(storage[i]) = <<ModelDate(r)>>
       /\ (pc[r] \in {"inserting", "updating"} /\ pc'[r] # pc[r]
             /\ ModelDate(r) # request[r][1].date) =>
            Those(storage', request[r][1].date) = Those(storage, request[r][1].date)]_vars

\* A create request dated 2024-03-01, answered by the model with 2024-03-02,
\* has inserted the record of 2024-03-02 while the store holds a record of
\* 2024-03-01.
C18_Witness ==
  \E r \in Req :
    /\ IsCreate(r) /\ Succeeded(r) /\ insertRes[r] = <<"Ok">>
    /\ request[r][1].date = 19783 /\ json[r][1].date = 19784
    /\ Those(storage, 19783) # <<>>
    /\ Those(storage, 19784) = <<ToDocument(json[r][1])>>

====
